---- MODULE Spec2Model ----
(***************************************************************************)
(* Model of the notebook "NewCo Urban Dataset - Cleaning File.ipynb":      *)
(* a linear sequence of cells that read a wide hourly emissions table,     *)
(* rename its columns, melt it, aggregate it by day/week/month/year, and   *)
(* left-merge the five tables with an urban-area polygon table.            *)
(*                                                                         *)
(* Strings are sequences of one-character strings, so that str.split and   *)
(* int() are computed and not assumed.  A nullable value is NaN or Val(x). *)
(***************************************************************************)
EXTENDS Integers, Sequences, FiniteSets, TLC

VARIABLES
    pc,          \* the next notebook cell to run (2..19), or 20 when done
    fault,       \* "none", or the exception that halted the run
    files,       \* the disk: a function from the paths that exist to contents
    vulcan_df,   \* the wide table
    t_df,        \* scratch table of cells 6, 7 and 19
    long_df,     \* the long table
    long_df_by,  \* long_df_hour .. long_df_year, by period
    shape_df,    \* the polygon table
    merged_by,   \* hour_df .. year_df, by period
    geo_by,      \* hour_geo .. year_geo, by period
    loop_i,      \* position of cell 19's loop in period_list
    vname,       \* the label given to rename_hvars
    renamed,     \* the results of successive applications of rename_hvars
    hcol,        \* the integer hour given to create_date
    Hour,        \* create_date's result
    Week         \* the Week key derived from Hour

vars == <<pc, fault, files, vulcan_df, t_df, long_df, long_df_by, shape_df,
          merged_by, geo_by, loop_i, vname, renamed, hcol, Hour, Week>>

pipeVars == <<pc, fault, files, vulcan_df, t_df, long_df, long_df_by, shape_df,
              merged_by, geo_by, loop_i>>
renameVars == <<vname, renamed>>
dateVars == <<hcol, Hour, Week>>

----------------------------------------------------------------------------
(* Bounds of the model *)

MaxLen == 3        \* longest column label given to rename_hvars
MaxRows == 2       \* most rows of the wide table
MaxPoly == 2       \* most rows of the polygon table
HourSlack == 48    \* create_date is tried this far outside 1..8760

----------------------------------------------------------------------------
(* Values *)

NaN == [isna |-> TRUE, v |-> 0]
Val(x) == [isna |-> FALSE, v |-> x]

\* A name that is not bound (before its assignment, or after del).
Undefined == <<>>

Digits == {"0", "1", "2", "3", "4", "5", "6", "7", "8", "9"}

DigitVal(c) ==
    CASE c = "0" -> 0 [] c = "1" -> 1 [] c = "2" -> 2 [] c = "3" -> 3
      [] c = "4" -> 4 [] c = "5" -> 5 [] c = "6" -> 6 [] c = "7" -> 7
      [] c = "8" -> 8 [] c = "9" -> 9

\* A column label: a string or an integer (or, after cell 7, a timestamp).
StrLabel(s) == [kind |-> "str", s |-> s, n |-> 0]
IntLabel(n) == [kind |-> "int", s |-> <<>>, n |-> n]
Raised == [kind |-> "raise", s |-> <<>>, n |-> 0]

----------------------------------------------------------------------------
(* str.split(sep): the pieces of s between the occurrences of sep *)

RECURSIVE split(_, _)
split(s, sep) ==
    IF \A i \in 1..Len(s) : s[i] # sep
    THEN <<s>>
    ELSE LET i == CHOOSE j \in 1..Len(s) :
                      s[j] = sep /\ \A k \in 1..(j - 1) : s[k] # sep
         IN  <<SubSeq(s, 1, i - 1)>> \o split(SubSeq(s, i + 1, Len(s)), sep)

(* int(str): surrounding whitespace is stripped, one sign is allowed, then
   digits with single underscores between them.  [ok, v]. *)

RECURSIVE lstrip(_)
lstrip(s) == IF Len(s) > 0 /\ s[1] = " " THEN lstrip(Tail(s)) ELSE s

RECURSIVE rstrip(_)
rstrip(s) ==
    IF Len(s) > 0 /\ s[Len(s)] = " " THEN rstrip(SubSeq(s, 1, Len(s) - 1)) ELSE s

RECURSIVE DecimalValue(_)
DecimalValue(ds) ==
    IF Len(ds) = 0 THEN 0
    ELSE LET c == ds[Len(ds)]
             rest == SubSeq(ds, 1, Len(ds) - 1)
         IN  IF c = "_" THEN DecimalValue(rest)
             ELSE 10 * DecimalValue(rest) + DigitVal(c)

IsDigitString(ds) ==
    /\ Len(ds) > 0
    /\ \A i \in 1..Len(ds) : ds[i] \in Digits \cup {"_"}
    /\ ds[1] # "_"
    /\ ds[Len(ds)] # "_"
    /\ \A i \in 1..(Len(ds) - 1) : ~(ds[i] = "_" /\ ds[i + 1] = "_")

PyInt(str) ==
    LET t == rstrip(lstrip(str))
        signed == Len(t) > 0 /\ t[1] \in {"+", "-"}
        body == IF signed THEN Tail(t) ELSE t
    IN  IF IsDigitString(body)
        THEN [ok |-> TRUE,
              v |-> IF signed /\ t[1] = "-" THEN 0 - DecimalValue(body)
                    ELSE DecimalValue(body)]
        ELSE [ok |-> FALSE, v |-> 0]

----------------------------------------------------------------------------
(* Cell 4: rename_hvars *)

\* The try block: vname.split('h') unpacked into two names, then int(hour).
\* [ok |-> FALSE] stands for any exception raised inside it.
TryRename(label) ==
    IF label.kind # "str"
    THEN [ok |-> FALSE, v |-> 0]                \* int has no split
    ELSE LET parts == split(label.s, "h")
         IN  IF Len(parts) # 2
             THEN [ok |-> FALSE, v |-> 0]       \* unpacking fails
             ELSE PyInt(parts[2])

\* A variant that catches only ValueError: a non-string label escapes.
rename_hvars_narrow(label) ==
    IF label.kind # "str" THEN Raised
    ELSE LET r == TryRename(label)
         IN  IF r.ok THEN IntLabel(r.v) ELSE label

rename_hvars(label) ==
    LET r == TryRename(label)
    IN  IF r.ok THEN IntLabel(r.v) ELSE label   \* bare except: return vname

----------------------------------------------------------------------------
(* Labels given to rename_hvars *)

Alphabet == {"h", "x", "0", "1", "-", " "}

RECURSIVE StringsUpTo(_)
StringsUpTo(n) ==
    IF n = 0 THEN {<<>>}
    ELSE LET shorter == StringsUpTo(n - 1)
         IN  shorter \cup {Append(s, c) : s \in shorter, c \in Alphabet}

InputInts == {0, 1, 10}

InputLabels ==
    {StrLabel(s) : s \in StringsUpTo(MaxLen)} \cup {IntLabel(n) : n \in InputInts}

----------------------------------------------------------------------------
(* Cell 7: create_date.  datetime(2015, 1, 1) + timedelta(hours = h - 1).
   A timestamp is [year, month, day, hour]: only whole hours are ever added
   to a midnight, so minute and second stay 0 and are not carried. *)

IsLeap(y) == y % 4 = 0 /\ (y % 100 # 0 \/ y % 400 = 0)

DaysInMonth(y, m) ==
    CASE m \in {1, 3, 5, 7, 8, 10, 12} -> 31
      [] m \in {4, 6, 9, 11} -> 30
      [] m = 2 -> IF IsLeap(y) THEN 29 ELSE 28

RECURSIVE DaysBeforeMonth(_, _)
DaysBeforeMonth(y, m) ==
    IF m = 1 THEN 0 ELSE DaysBeforeMonth(y, m - 1) + DaysInMonth(y, m - 1)

DaysBeforeYear(y) ==
    LET p == y - 1 IN p * 365 + (p \div 4) - (p \div 100) + (p \div 400)

\* date.toordinal: 0001-01-01 is day 1
ymd2ord(y, m, d) == DaysBeforeYear(y) + DaysBeforeMonth(y, m) + d

\* date.fromordinal
ord2ymd(ordinal) ==
    LET n0 == ordinal - 1
        n400 == n0 \div 146097
        n1 == n0 % 146097
        n100 == n1 \div 36524
        n2 == n1 % 36524
        n4 == n2 \div 1461
        n3 == n2 % 1461
        ny == n3 \div 365
        n == n3 % 365
        year == n400 * 400 + 1 + n100 * 100 + n4 * 4 + ny
    IN  IF ny = 4 \/ n100 = 4
        THEN [year |-> year - 1, month |-> 12, day |-> 31]
        ELSE LET m0 == (n + 50) \div 32
                 pre0 == DaysBeforeMonth(year, m0)
                 month == IF pre0 > n THEN m0 - 1 ELSE m0
                 preceding == IF pre0 > n
                              THEN pre0 - DaysInMonth(year, m0 - 1) ELSE pre0
             IN  [year |-> year, month |-> month, day |-> n - preceding + 1]

Timestamp(y, m, d, hh) == [year |-> y, month |-> m, day |-> d, hour |-> hh]

\* datetime + timedelta(hours = k): the timedelta is normalised to whole days
\* and a remainder in 0..23, the days are added to the ordinal.
AddHours(ts, k) ==
    LET total == ts.hour + k
        days == total \div 24
        date == ord2ymd(ymd2ord(ts.year, ts.month, ts.day) + days)
    IN  Timestamp(date.year, date.month, date.day, total % 24)

\* A variant that forgets to re-zero the 1-based hour.
create_date_norezero(h) == AddHours(Timestamp(2015, 1, 1, 0), h)

create_date(h) == AddHours(Timestamp(2015, 1, 1, 0), h - 1)

(* Cell 7: the four period keys of a timestamp *)

\* date.weekday: Monday is 0
weekday(ts) == (ymd2ord(ts.year, ts.month, ts.day) + 6) % 7

ToDay(ts) == [freq |-> "D", year |-> ts.year, month |-> ts.month, day |-> ts.day]

\* A variant whose weeks run Sunday to Saturday.
ToWeek_sunday(ts) ==
    LET back == (weekday(ts) + 1) % 7
        date == ord2ymd(ymd2ord(ts.year, ts.month, ts.day) - back)
    IN  Timestamp(date.year, date.month, date.day, 0)

\* to_period('W') is the week ending on Sunday; start_time is its Monday 00:00
ToWeek(ts) ==
    LET date == ord2ymd(ymd2ord(ts.year, ts.month, ts.day) - weekday(ts))
    IN  Timestamp(date.year, date.month, date.day, 0)

ToMonth(ts) == [freq |-> "M", year |-> ts.year, month |-> ts.month]

ToYear(ts) == [freq |-> "A", year |-> ts.year]

\* Hours from 0001-01-01T00:00 to the start of a timestamp or period
StartHours(p) ==
    LET has(f) == f \in DOMAIN p
        m == IF has("month") THEN p.month ELSE 1
        d == IF has("day") THEN p.day ELSE 1
        hh == IF has("hour") THEN p.hour ELSE 0
    IN  (ymd2ord(p.year, m, d) - 1) * 24 + hh

HoursInYear == 8760

----------------------------------------------------------------------------
(* Idle values of the three groups of variables *)

PipeIdle ==
    /\ pc = 0 /\ fault = "none" /\ files = <<>>
    /\ vulcan_df = Undefined /\ t_df = Undefined /\ long_df = Undefined
    /\ long_df_by = <<>> /\ shape_df = Undefined
    /\ merged_by = <<>> /\ geo_by = <<>> /\ loop_i = 0

RenameIdle == vname = IntLabel(0) /\ renamed = <<>>

DateIdle == hcol = 1 /\ Hour = Undefined /\ Week = Undefined

----------------------------------------------------------------------------
(* The column normalizer on its own: rename_hvars applied, and applied again
   to its own result, as DataFrame.rename does to each label. *)

InitRename ==
    /\ vname \in InputLabels
    /\ renamed = <<>>
    /\ PipeIdle /\ DateIdle

ApplyRename ==
    /\ Len(renamed) < 2
    /\ \A i \in 1..Len(renamed) : renamed[i] # Raised
    /\ renamed' = Append(renamed,
                         rename_hvars(IF renamed = <<>> THEN vname
                                      ELSE renamed[Len(renamed)]))
    /\ UNCHANGED <<vname, pipeVars, dateVars>>

NextRename == ApplyRename

SpecRename == InitRename /\ [][NextRename]_vars

----------------------------------------------------------------------------
(* The timestamp deriver on its own *)

InputHours == (1 - HourSlack)..(HoursInYear + HourSlack)

InitDate ==
    /\ hcol \in InputHours
    /\ Hour = Undefined /\ Week = Undefined
    /\ PipeIdle /\ RenameIdle

CreateDate ==
    /\ Hour = Undefined
    /\ Hour' = create_date(hcol)
    /\ UNCHANGED <<hcol, Week, pipeVars, renameVars>>

DeriveWeek ==
    /\ Hour # Undefined /\ Week = Undefined
    /\ Week' = ToWeek(Hour)
    /\ UNCHANGED <<hcol, Hour, pipeVars, renameVars>>

NextDate == CreateDate \/ DeriveWeek

SpecDate == InitDate /\ [][NextDate]_vars

----------------------------------------------------------------------------
(* Tables.  A DataFrame is [columns, rows].  The wide table keeps its rows as
   tuples, one cell per column, and its column labels as labels; the long,
   aggregated and merged tables keep their rows as records and their column
   names as strings.  GEOID10 is an integer, Sector a string, tC is nullable. *)

DataFrame(columns, rows) == [columns |-> columns, rows |-> rows]

Range(seq) == {seq[i] : i \in 1..Len(seq)}

HasColumn(df, label) == label \in Range(df.columns)

ColumnIndex(df, label) ==
    CHOOSE i \in 1..Len(df.columns) :
        df.columns[i] = label /\ \A k \in 1..(i - 1) : df.columns[k] # label

L_GEOID10 == StrLabel(<<"G", "E", "O", "I", "D", "1", "0">>)
L_Sector == StrLabel(<<"S", "e", "c", "t", "o", "r">>)

DateLabel(ts) == [kind |-> "date", s |-> <<>>, n |-> 0, ts |-> ts]

\* DataFrame.rename(..., axis='columns'): the rows stay, the labels change
WithColumns(df, labels) == [df EXCEPT !.columns = labels]

(* Paths: directory, stem, suffix, so that 'output_data/' + p_lower + suffix
   is built as the loop of cell 19 builds it. *)

CsvPath == <<"raw_data_not_on_github/", "total_2015_hourly", ".csv">>
ShpPath == <<"raw_data_not_on_github/cb_2018_us_ua10_500k/", "cb_2018_us_ua10_500k", ".shp">>
UnaggPath == <<"output_data/", "vulcan_unaggregated_datetime_dataset", ".pkl">>
TcPath(stem) == <<"output_data/", stem, "_tc_dataset.pkl">>
GeoPath(stem) == <<"output_data/", stem, "_geo.pkl">>

Exists(path) == path \in DOMAIN files

Periods == {"Hour", "Day", "Week", "Month", "Year"}

period_list == <<"Year", "Month", "Week", "Day", "Hour">>

\* str.lower on the five period names
lower(p) ==
    CASE p = "Hour" -> "hour" [] p = "Day" -> "day" [] p = "Week" -> "week"
      [] p = "Month" -> "month" [] p = "Year" -> "year"

\* cell 19: 'output_data/' + p_lower + '_tc_dataset.pkl'
LoopTcPath(p) == TcPath(lower(p))

\* A variant of the loop's output path that ignores the period.
LoopGeoPath_fixed(p) == GeoPath("year")

\* cell 19: 'output_data/' + p_lower + '_geo.pkl'
LoopGeoPath(p) == GeoPath(lower(p))

----------------------------------------------------------------------------
(* Cell 7: melt and the period keys *)

ValueColumns(df) ==
    LET idx == [i \in 1..Len(df.columns) |-> i]
        NotId(i) == df.columns[i] \notin {L_GEOID10, L_Sector}
    IN  SelectSeq(idx, NotId)

LongRow(df, i, j) ==
    [GEOID10 |-> df.rows[i][ColumnIndex(df, L_GEOID10)],
     Sector |-> df.rows[i][ColumnIndex(df, L_Sector)],
     Hour |-> df.columns[j],
     tC |-> df.rows[i][j]]

\* A variant that leaves out the cells that are null.
melt_dropna(df) ==
    LET vc == ValueColumns(df)
        N == Len(df.rows)
        all == [k \in 1..(N * Len(vc)) |->
                   LongRow(df, ((k - 1) % N) + 1, vc[((k - 1) \div N) + 1])]
        NotNull(r) == ~r.tC.isna
    IN  DataFrame(<<"GEOID10", "Sector", "Hour", "tC">>, SelectSeq(all, NotNull))

\* melt(id_vars = ['GEOID10', 'Sector'], var_name = 'Hour', value_name = 'tC'):
\* every other column, in order, and under each of them every row, in order
melt(df) ==
    LET vc == ValueColumns(df)
        N == Len(df.rows)
    IN  DataFrame(<<"GEOID10", "Sector", "Hour", "tC">>,
                  [k \in 1..(N * Len(vc)) |->
                      LongRow(df, ((k - 1) % N) + 1, vc[((k - 1) \div N) + 1])])

\* Hour.dt.to_period(...) and the reordering of the columns
WithPeriods(df) ==
    DataFrame(<<"GEOID10", "Sector", "Hour", "Day", "Week", "Month", "Year", "tC">>,
              [k \in 1..Len(df.rows) |->
                  LET r == df.rows[k]
                      ts == r.Hour.ts
                  IN  [GEOID10 |-> r.GEOID10, Sector |-> r.Sector, Hour |-> ts,
                       Day |-> ToDay(ts), Week |-> ToWeek(ts),
                       Month |-> ToMonth(ts), Year |-> ToYear(ts), tC |-> r.tC]])

----------------------------------------------------------------------------
(* Cell 9: groupby([GEOID10, Sector, period]).sum().reset_index() *)

SectorOrder == <<"cement", "onroad">>

SectorRank(s) == CHOOSE i \in 1..Len(SectorOrder) : SectorOrder[i] = s

GroupKey(r, p) == [GEOID10 |-> r.GEOID10, Sector |-> r.Sector, P |-> r[p]]

KeyLeq(a, b) ==
    \/ a.GEOID10 < b.GEOID10
    \/ /\ a.GEOID10 = b.GEOID10
       /\ \/ SectorRank(a.Sector) < SectorRank(b.Sector)
          \/ /\ a.Sector = b.Sector
             /\ StartHours(a.P) <= StartHours(b.P)

RECURSIVE SortKeys(_)
SortKeys(S) ==
    IF S = {} THEN <<>>
    ELSE LET m == CHOOSE k \in S : \A o \in S : KeyLeq(k, o)
         IN  <<m>> \o SortKeys(S \ {m})

\* A variant in which one null makes the whole sum null.
RECURSIVE SumSkipNa_poison(_)
SumSkipNa_poison(cells) ==
    IF cells = <<>> THEN Val(0)
    ELSE LET rest == SumSkipNa_poison(Tail(cells))
         IN  IF Head(cells).isna \/ rest.isna THEN NaN
             ELSE Val(Head(cells).v + rest.v)

\* sum() with skipna: the nulls are left out, an empty sum is 0
RECURSIVE SumSkipNa(_)
SumSkipNa(cells) ==
    IF cells = <<>> THEN Val(0)
    ELSE LET rest == SumSkipNa(Tail(cells))
         IN  IF Head(cells).isna THEN rest ELSE Val(Head(cells).v + rest.v)

GroupCells(df, p, key) ==
    LET InGroup(r) == GroupKey(r, p) = key
        members == SelectSeq(df.rows, InGroup)
    IN  [i \in 1..Len(members) |-> members[i].tC]

\* A variant that keeps the first value of each group instead of the sum.
groupby_first(df, p) ==
    LET keys == SortKeys({GroupKey(df.rows[i], p) : i \in 1..Len(df.rows)})
    IN  DataFrame(<<"GEOID10", "Sector", p, "tC">>,
                  [k \in 1..Len(keys) |->
                      (p :> keys[k].P) @@
                      [GEOID10 |-> keys[k].GEOID10, Sector |-> keys[k].Sector,
                       tC |-> GroupCells(df, p, keys[k])[1]]])

groupby_sum(df, p) ==
    LET keys == SortKeys({GroupKey(df.rows[i], p) : i \in 1..Len(df.rows)})
    IN  DataFrame(<<"GEOID10", "Sector", p, "tC">>,
                  [k \in 1..Len(keys) |->
                      (p :> keys[k].P) @@
                      [GEOID10 |-> keys[k].GEOID10, Sector |-> keys[k].Sector,
                       tC |-> SumSkipNa(GroupCells(df, p, keys[k]))]])

\* long_df[['GEOID10', 'Sector', 'Hour', 'tC']]
SelectHour(df) ==
    DataFrame(<<"GEOID10", "Sector", "Hour", "tC">>,
              [k \in 1..Len(df.rows) |->
                  [GEOID10 |-> df.rows[k].GEOID10, Sector |-> df.rows[k].Sector,
                   Hour |-> df.rows[k].Hour, tC |-> df.rows[k].tC]])

----------------------------------------------------------------------------
(* Cells 13 and 19: the integer coercion and the left merge *)

IsNumericId(row) == PyInt(row.GEOID10).ok

\* A variant that turns a non-numeric identifier into a null instead of failing.
CoercionFails_lenient(df) == FALSE

\* shape_df.GEOID10.apply(int) raises ValueError on the first bad identifier
CoercionFails(df) == \E i \in 1..Len(df.rows) : ~IsNumericId(df.rows[i])

WithGeoidInt(df) ==
    DataFrame(Append(df.columns, "GEOID10_int"),
              [i \in 1..Len(df.rows) |->
                  LET r == PyInt(df.rows[i].GEOID10)
                  IN  df.rows[i] @@
                      [GEOID10_int |-> IF r.ok THEN Val(r.v) ELSE NaN]])

GeoColumns == <<"GEOID10_int", "NAME10", "ALAND10", "AWATER10", "geometry">>

\* the right-hand rows that match one left-hand row, in the right table's order
Matches(left, shape) ==
    LET Same(s) == s.GEOID10_int = Val(left.GEOID10)
    IN  SelectSeq(shape.rows, Same)

JoinedRows(left, shape) ==
    LET ms == Matches(left, shape)
    IN  IF ms = <<>>
        THEN <<left @@ [c \in Range(GeoColumns) |-> NaN]>>
        ELSE [i \in 1..Len(ms) |->
                 left @@ [c \in Range(GeoColumns) |->
                             IF c = "GEOID10_int" THEN ms[i][c] ELSE Val(ms[i][c])]]

RECURSIVE Flatten(_)
Flatten(seqs) == IF seqs = <<>> THEN <<>> ELSE Head(seqs) \o Flatten(Tail(seqs))

\* df.merge(shape_df[[...]], how='left', left_on='GEOID10', right_on='GEOID10_int')
merge_left(df, shape) ==
    DataFrame(df.columns \o GeoColumns,
              Flatten([i \in 1..Len(df.rows) |-> JoinedRows(df.rows[i], shape)]))

\* rename NAME10, ALAND10, AWATER10, then select and order the eight columns
quick_df_cleanup(df, period_id) ==
    LET out == <<"GEOID10", "Sector", "Urban Area", "Land Area", "Water Area",
                 "geometry", period_id, "tC">>
        Source(c) == CASE c = "Urban Area" -> "NAME10"
                       [] c = "Land Area" -> "ALAND10"
                       [] c = "Water Area" -> "AWATER10"
                       [] OTHER -> c
    IN  DataFrame(out,
                  [i \in 1..Len(df.rows) |->
                      [c \in Range(out) |-> df.rows[i][Source(c)]]])

----------------------------------------------------------------------------
(* The inputs: the CSV of wide hourly emissions and the polygon shapefile *)

RECURSIVE DigitsOf(_)
DigitsOf(n) ==
    LET d == CHOOSE c \in Digits : DigitVal(c) = n % 10
    IN  IF n < 10 THEN <<d>> ELSE Append(DigitsOf(n \div 10), d)

HLabel(n) == StrLabel(<<"h">> \o DigitsOf(n))

\* the hour columns of the modelled file: h1 and h2 share a day, h8760 is in
\* another day, week and month
HourColumns == <<1, 2, HoursInYear>>

CsvColumns ==
    <<L_GEOID10, L_Sector>> \o [i \in 1..Len(HourColumns) |-> HLabel(HourColumns[i])]

Blocks == {1, 2}
Sectors == Range(SectorOrder)

\* a cell of hour column j is null or holds j, so that the sums tell the
\* columns apart
WideRow(g, s, present) ==
    <<g, s>> \o [j \in 1..Len(HourColumns) |-> IF present[j] THEN Val(j) ELSE NaN]

Presence == [1..Len(HourColumns) -> BOOLEAN]

WideRows == {WideRow(g, s, c) : g \in Blocks, s \in Sectors, c \in Presence}

\* the rows without nulls of one sector
PlainRows == {WideRow(g, "cement", [j \in 1..Len(HourColumns) |-> TRUE]) : g \in Blocks}

RowRank(row) ==
    LET Bit(j) == IF row[j + 2].isna THEN 0 ELSE 1
        RECURSIVE Bits(_)
        Bits(j) == IF j = 0 THEN 0 ELSE 2 * Bits(j - 1) + Bit(j)
    IN  <<row[1], SectorRank(row[2]), Bits(Len(HourColumns))>>

RowLeq(a, b) ==
    LET ra == RowRank(a)
        rb == RowRank(b)
    IN  \/ ra[1] < rb[1]
        \/ ra[1] = rb[1] /\ ra[2] < rb[2]
        \/ ra[1] = rb[1] /\ ra[2] = rb[2] /\ ra[3] <= rb[3]

TuplesOver(S, n) == [1..n -> S]

SeqsUpTo(S, lo, hi) == UNION {TuplesOver(S, n) : n \in lo..hi}

\* The tables of 1..MaxRows rows.  The file lists its rows by block, sector
\* and cells; no cell of the notebook depends on the order of the rows
\* otherwise than by carrying it to its output.
OrderedRows(S) ==
    {rows \in SeqsUpTo(S, 1, MaxRows) :
        \A i \in 1..(Len(rows) - 1) : RowLeq(rows[i], rows[i + 1])}

CsvTables == {DataFrame(CsvColumns, rows) : rows \in OrderedRows(WideRows)}

PlainCsvTables == {DataFrame(CsvColumns, rows) : rows \in OrderedRows(PlainRows)}

Polygon(id, name, land, water, geom) ==
    [GEOID10 |-> id, NAME10 |-> name, ALAND10 |-> land, AWATER10 |-> water,
     geometry |-> geom]

\* "1" and "01" are the same integer; "x1" is not a number
Polygons ==
    {Polygon(<<"1">>, "Akron", 10, 1, "POLYGON_A"),
     Polygon(<<"0", "1">>, "Boise", 20, 2, "POLYGON_B"),
     Polygon(<<"2">>, "Cody", 30, 3, "POLYGON_C"),
     Polygon(<<"x", "1">>, "Dover", 40, 4, "POLYGON_D")}

ShapeColumns == <<"GEOID10", "NAME10", "ALAND10", "AWATER10", "geometry">>

\* the tables of 0..MaxPoly polygons, each polygon listed once
ShapeTables ==
    {DataFrame(ShapeColumns, rows) :
        rows \in {r \in SeqsUpTo(Polygons, 0, MaxPoly) :
                     \A i, j \in 1..Len(r) : i # j => r[i] # r[j]}}

PlainShapeTable ==
    DataFrame(ShapeColumns, <<Polygon(<<"1">>, "Akron", 10, 1, "POLYGON_A")>>)

Inputs ==
    (CsvTables \X {PlainShapeTable}) \cup (PlainCsvTables \X ShapeTables)

----------------------------------------------------------------------------
(* The notebook, cell by cell.  A cell runs when the cells before it have run
   and none of them raised; a cell that raises leaves the run halted there. *)

Running(cell) == pc = cell /\ fault = "none"

InitPipe ==
    /\ pc = 2 /\ fault = "none"
    /\ \E in \in Inputs : files = (CsvPath :> in[1]) @@ (ShpPath :> in[2])
    /\ vulcan_df = Undefined /\ t_df = Undefined /\ long_df = Undefined
    /\ long_df_by = <<>> /\ shape_df = Undefined
    /\ merged_by = <<>> /\ geo_by = <<>> /\ loop_i = 0
    /\ RenameIdle /\ DateIdle

\* cell 2: read_csv
Cell2 ==
    /\ Running(2)
    /\ IF ~Exists(CsvPath)
       THEN /\ fault' = "FileNotFoundError"
            /\ UNCHANGED <<pc, vulcan_df>>
       ELSE /\ vulcan_df' = files[CsvPath]
            /\ pc' = 4
            /\ UNCHANGED fault
    /\ UNCHANGED <<files, t_df, long_df, long_df_by, shape_df, merged_by, geo_by,
                   loop_i, renameVars, dateVars>>

\* cell 4: vulcan_df.rename(rename_hvars, axis='columns')
Cell4 ==
    /\ Running(4)
    /\ vulcan_df' = WithColumns(vulcan_df,
                               [i \in 1..Len(vulcan_df.columns) |->
                                   rename_hvars(vulcan_df.columns[i])])
    /\ pc' = 5
    /\ UNCHANGED <<fault, files, t_df, long_df, long_df_by, shape_df, merged_by,
                   geo_by, loop_i, renameVars, dateVars>>

\* cell 5: vulcan_df[['GEOID10', 'Sector', 1, 8760]].isna().sum()
Cell5 ==
    /\ Running(5)
    /\ IF \E l \in {L_GEOID10, L_Sector, IntLabel(1), IntLabel(HoursInYear)} :
              ~HasColumn(vulcan_df, l)
       THEN fault' = "KeyError" /\ UNCHANGED pc
       ELSE pc' = 6 /\ UNCHANGED fault
    /\ UNCHANGED <<files, vulcan_df, t_df, long_df, long_df_by, shape_df,
                   merged_by, geo_by, loop_i, renameVars, dateVars>>

\* cell 6: the share of null first-hour values by sector
NullsBySector(df) ==
    LET sec == ColumnIndex(df, L_Sector)
        h1 == ColumnIndex(df, IntLabel(1))
        present == {df.rows[i][sec] : i \in 1..Len(df.rows)}
        IsPresent(s) == s \in present
        sectors == SelectSeq(SectorOrder, IsPresent)
    IN  DataFrame(<<"Sector", IntLabel(1), "null_bool", "row_count", "pct_null">>,
                  [k \in 1..Len(sectors) |->
                      LET Of(r) == r[sec] = sectors[k]
                          rs == SelectSeq(df.rows, Of)
                          IsNull(r) == r[h1].isna
                          nulls == Len(SelectSeq(rs, IsNull))
                      IN  [Sector |-> sectors[k],
                           hour1 |-> SumSkipNa([i \in 1..Len(rs) |-> rs[i][h1]]),
                           null_bool |-> nulls,
                           row_count |-> Len(rs),
                           pct_null |-> <<nulls, Len(rs)>>]])

Cell6 ==
    /\ Running(6)
    /\ t_df' = NullsBySector(vulcan_df)
    /\ pc' = 7
    /\ UNCHANGED <<fault, files, vulcan_df, long_df, long_df_by, shape_df,
                   merged_by, geo_by, loop_i, renameVars, dateVars>>

\* cell 7: lambda x: create_date(x) if isinstance(x, int) else x
DateRename(label) ==
    IF label.kind = "int" THEN DateLabel(create_date(label.n)) ELSE label

\* cell 7: dates for column names, melt, period keys, write to disk
Cell7 ==
    /\ Running(7)
    /\ LET t == WithColumns(vulcan_df,
                            [i \in 1..Len(vulcan_df.columns) |->
                                DateRename(vulcan_df.columns[i])])
           vc == ValueColumns(t)
       IN  IF ~HasColumn(t, L_GEOID10) \/ ~HasColumn(t, L_Sector)
           THEN /\ fault' = "KeyError"
                /\ t_df' = t
                /\ UNCHANGED <<pc, long_df, files>>
           ELSE IF \E k \in 1..Len(vc) : t.columns[vc[k]].kind # "date"
           THEN \* the Hour column is not datetime: .dt raises
                /\ fault' = "AttributeError"
                /\ t_df' = t
                /\ long_df' = melt(t)
                /\ UNCHANGED <<pc, files>>
           ELSE /\ t_df' = t
                /\ long_df' = WithPeriods(melt(t))
                /\ files' = (UnaggPath :> long_df') @@ files
                /\ pc' = 8
                /\ UNCHANGED fault
    /\ UNCHANGED <<vulcan_df, long_df_by, shape_df, merged_by, geo_by, loop_i,
                   renameVars, dateVars>>

\* cell 8: del long_df, t_df, vulcan_df; read the long table back
Cell8 ==
    /\ Running(8)
    /\ t_df' = Undefined
    /\ vulcan_df' = Undefined
    /\ IF ~Exists(UnaggPath)
       THEN /\ fault' = "FileNotFoundError"
            /\ long_df' = Undefined
            /\ UNCHANGED pc
       ELSE /\ long_df' = files[UnaggPath]
            /\ pc' = 9
            /\ UNCHANGED fault
    /\ UNCHANGED <<files, long_df_by, shape_df, merged_by, geo_by, loop_i,
                   renameVars, dateVars>>

\* cell 9: the five tables
Cell9 ==
    /\ Running(9)
    /\ long_df_by' = [p \in Periods |->
                         IF p = "Hour" THEN SelectHour(long_df)
                         ELSE groupby_sum(long_df, p)]
    /\ pc' = 10
    /\ UNCHANGED <<fault, files, vulcan_df, t_df, long_df, shape_df, merged_by,
                   geo_by, loop_i, renameVars, dateVars>>

\* cell 10: to_pickle of the five tables
Cell10 ==
    /\ Running(10)
    /\ files' = [path \in DOMAIN files \cup {TcPath(lower(p)) : p \in Periods} |->
                    IF \E p \in Periods : path = TcPath(lower(p))
                    THEN long_df_by[CHOOSE p \in Periods : path = TcPath(lower(p))]
                    ELSE files[path]]
    /\ pc' = 11
    /\ UNCHANGED <<fault, vulcan_df, t_df, long_df, long_df_by, shape_df,
                   merged_by, geo_by, loop_i, renameVars, dateVars>>

\* cell 11: read_pickle of the five tables
Cell11 ==
    /\ Running(11)
    /\ IF \E p \in Periods : ~Exists(TcPath(lower(p)))
       THEN fault' = "FileNotFoundError" /\ UNCHANGED <<pc, long_df_by>>
       ELSE /\ long_df_by' = [p \in Periods |-> files[TcPath(lower(p))]]
            /\ pc' = 12
            /\ UNCHANGED fault
    /\ UNCHANGED <<files, vulcan_df, t_df, long_df, shape_df, merged_by, geo_by,
                   loop_i, renameVars, dateVars>>

\* cells 12 and 18: gpd.read_file of the shapefile
ReadShape(cell, next) ==
    /\ Running(cell)
    /\ IF ~Exists(ShpPath)
       THEN fault' = "FileNotFoundError" /\ UNCHANGED <<pc, shape_df>>
       ELSE /\ shape_df' = files[ShpPath]
            /\ pc' = next
            /\ UNCHANGED fault
    /\ UNCHANGED <<files, vulcan_df, t_df, long_df, long_df_by, merged_by, geo_by,
                   loop_i, renameVars, dateVars>>

Cell12 == ReadShape(12, 13)

\* cell 13: the coercion, then the five merges
Cell13 ==
    /\ Running(13)
    /\ IF CoercionFails(shape_df)
       THEN fault' = "ValueError" /\ UNCHANGED <<pc, shape_df, merged_by>>
       ELSE /\ shape_df' = WithGeoidInt(shape_df)
            /\ merged_by' = [p \in Periods |-> merge_left(long_df_by[p], shape_df')]
            /\ pc' = 14
            /\ UNCHANGED fault
    /\ UNCHANGED <<files, vulcan_df, t_df, long_df, long_df_by, geo_by, loop_i,
                   renameVars, dateVars>>

\* cell 14: quick_df_cleanup of the five merged tables
Cell14 ==
    /\ Running(14)
    /\ geo_by' = [p \in Periods |-> quick_df_cleanup(merged_by[p], p)]
    /\ pc' = 15
    /\ UNCHANGED <<fault, files, vulcan_df, t_df, long_df, long_df_by, shape_df,
                   merged_by, loop_i, renameVars, dateVars>>

\* cell 15: to_pickle of the five geo tables
Cell15 ==
    /\ Running(15)
    /\ files' = [path \in DOMAIN files \cup {GeoPath(lower(p)) : p \in Periods} |->
                    IF \E p \in Periods : path = GeoPath(lower(p))
                    THEN geo_by[CHOOSE p \in Periods : path = GeoPath(lower(p))]
                    ELSE files[path]]
    /\ pc' = 17
    /\ UNCHANGED <<fault, vulcan_df, t_df, long_df, long_df_by, shape_df,
                   merged_by, geo_by, loop_i, renameVars, dateVars>>

\* cell 17: long_df_year is read again
Cell17 ==
    /\ Running(17)
    /\ IF ~Exists(TcPath("year"))
       THEN fault' = "FileNotFoundError" /\ UNCHANGED <<pc, long_df_by>>
       ELSE /\ long_df_by' = [long_df_by EXCEPT !["Year"] = files[TcPath("year")]]
            /\ pc' = 18
            /\ UNCHANGED fault
    /\ UNCHANGED <<files, vulcan_df, t_df, long_df, shape_df, merged_by, geo_by,
                   loop_i, renameVars, dateVars>>

Cell18 == ReadShape(18, 19)

\* cell 19, before the loop: the coercion again
Cell19Coerce ==
    /\ Running(19) /\ loop_i = 0
    /\ IF CoercionFails(shape_df)
       THEN fault' = "ValueError" /\ UNCHANGED <<shape_df, loop_i>>
       ELSE /\ shape_df' = WithGeoidInt(shape_df)
            /\ loop_i' = 1
            /\ UNCHANGED fault
    /\ UNCHANGED <<pc, files, vulcan_df, t_df, long_df, long_df_by, merged_by,
                   geo_by, renameVars, dateVars>>

\* cell 19, one turn of the loop: read, merge, clean up, write, del
Cell19Loop ==
    /\ Running(19) /\ loop_i \in 1..Len(period_list)
    /\ LET p == period_list[loop_i]
       IN  IF ~Exists(LoopTcPath(p))
           THEN /\ fault' = "FileNotFoundError"
                /\ UNCHANGED <<pc, files, t_df, long_df, loop_i>>
           ELSE /\ LET t == merge_left(files[LoopTcPath(p)], shape_df)
                   IN  files' = (LoopGeoPath(p) :> quick_df_cleanup(t, p)) @@ files
                /\ long_df' = Undefined
                /\ t_df' = Undefined
                /\ loop_i' = loop_i + 1
                /\ pc' = IF loop_i = Len(period_list) THEN 20 ELSE 19
                /\ UNCHANGED fault
    /\ UNCHANGED <<vulcan_df, long_df_by, shape_df, merged_by, geo_by,
                   renameVars, dateVars>>

Next ==
    \/ Cell2 \/ Cell4 \/ Cell5 \/ Cell6 \/ Cell7 \/ Cell8 \/ Cell9 \/ Cell10
    \/ Cell11 \/ Cell12 \/ Cell13 \/ Cell14 \/ Cell15 \/ Cell17 \/ Cell18
    \/ Cell19Coerce \/ Cell19Loop

Spec == InitPipe /\ [][Next]_vars

----------------------------------------------------------------------------
(* Properties of the notebook (Spec) *)

AggPeriods == {"Day", "Week", "Month", "Year"}

\* the first nine cells ran and the long table is still bound
Aggregated == pc >= 10 /\ long_df # Undefined

\* the sum of the non-null tC of the rows that satisfy Of
RECURSIVE Total(_)
Total(rows) ==
    IF rows = <<>> THEN 0
    ELSE (IF Head(rows).tC.isna THEN 0 ELSE Head(rows).tC.v) + Total(Tail(rows))

GroupTotal(df, p, key) ==
    LET Of(r) == GroupKey(r, p) = key
    IN  Total(SelectSeq(df.rows, Of))

PairTotal(df, g, s) ==
    LET Of(r) == r.GEOID10 = g /\ r.Sector = s
    IN  Total(SelectSeq(df.rows, Of))

NoNullTc(df) == \A k \in 1..Len(df.rows) : ~df.rows[k].tC.isna

\* C1 (as stated): every row of an aggregated table is in the geo-joined table
\* exactly once, with null geographic fields when no polygon has its block
\* identifier, also when two polygon rows have the same integer identifier.
C1_AsStated ==
    (pc >= 14 /\ fault = "none") =>
        \A p \in Periods :
            LET left == long_df_by[p].rows
                out == merged_by[p].rows
            IN  /\ Len(out) = Len(left)
                /\ \A k \in 1..Len(left) :
                       /\ \A c \in DOMAIN left[k] : out[k][c] = left[k][c]
                       /\ (\A i \in 1..Len(files[ShpPath].rows) :
                               PyInt(files[ShpPath].rows[i].GEOID10).v # left[k].GEOID10)
                          => \A c \in Range(GeoColumns) : out[k][c] = NaN

\* C2: without null tC values, for every block, sector and granularity the
\* rows of the aggregated table of the pair sum to what the long rows of the
\* pair sum to; the yearly table has one row for the pair, holding that sum.
C2_TotalsPreserved ==
    (Aggregated /\ NoNullTc(long_df)) =>
        \A g \in Blocks, s \in Sectors :
            /\ \A p \in AggPeriods :
                   PairTotal(long_df_by[p], g, s) = PairTotal(long_df, g, s)
            /\ \A k \in 1..Len(long_df_by["Year"].rows) :
                   LET r == long_df_by["Year"].rows[k]
                   IN  (r.GEOID10 = g /\ r.Sector = s)
                           => r.tC = Val(PairTotal(long_df, g, s))

C2_Witness ==
    /\ Aggregated /\ NoNullTc(long_df)
    /\ Len(long_df.rows) = 2 * Len(HourColumns)
    /\ PairTotal(long_df, 1, "cement") = 12
    /\ Len(long_df_by["Day"].rows) = 2
    /\ Len(long_df_by["Year"].rows) = 1

\* C3: the long table has (wide rows) x (hour columns) rows, one for each
\* cell of the wide table, null or not.
C3_MeltCount ==
    (pc >= 8 /\ long_df # Undefined) =>
        LET wide == files[CsvPath]
            H == Len(wide.columns) - 2
            Cell(i, j) == [GEOID10 |-> wide.rows[i][1], Sector |-> wide.rows[i][2],
                           Hour |-> create_date(HourColumns[j]),
                           tC |-> wide.rows[i][j + 2]]
            AsCell(r) == [GEOID10 |-> r.GEOID10, Sector |-> r.Sector,
                          Hour |-> r.Hour, tC |-> r.tC]
        IN  /\ Len(long_df.rows) = Len(wide.rows) * H
            /\ \A i \in 1..Len(wide.rows), j \in 1..H :
                   Cardinality({k \in 1..Len(long_df.rows) :
                                   AsCell(long_df.rows[k]) = Cell(i, j)})
                   = Cardinality({i2 \in 1..Len(wide.rows) : Cell(i2, j) = Cell(i, j)})

C3_Witness ==
    /\ pc >= 8 /\ long_df # Undefined
    /\ Len(files[CsvPath].rows) = 2
    /\ Len(long_df.rows) = 6
    /\ \E k \in 1..Len(long_df.rows) : long_df.rows[k].tC.isna

\* C6: every period sum is the sum of the non-null tC values of its (block,
\* sector, period) group; a null adds nothing to it and raises nothing.
C6_NullsSkipped ==
    /\ pc \in 2..9 => fault \in {"none"}
    /\ Aggregated =>
           \A p \in AggPeriods :
               /\ \A k \in 1..Len(long_df.rows) :
                      \E a \in 1..Len(long_df_by[p].rows) :
                          GroupKey(long_df_by[p].rows[a], p) = GroupKey(long_df.rows[k], p)
               /\ \A a \in 1..Len(long_df_by[p].rows) :
                      LET row == long_df_by[p].rows[a]
                      IN  row.tC = Val(GroupTotal(long_df, p, GroupKey(row, p)))

\* one block and sector with the hours [1, null, 3] and the yearly sum 4
C6_Witness ==
    /\ Aggregated
    /\ Len(long_df.rows) = 3
    /\ long_df.rows[1].tC = Val(1)
    /\ long_df.rows[2].tC = NaN
    /\ long_df.rows[3].tC = Val(3)
    /\ long_df_by["Year"].rows[1].tC = Val(4)

HasNonNumericId == \E i \in 1..Len(files[ShpPath].rows) :
                       ~PyInt(files[ShpPath].rows[i].GEOID10).ok

NoGeoFile == \A p \in Periods : ~Exists(GeoPath(lower(p)))

\* C9: with a non-numeric polygon identifier the coercion of cell 13 raises
\* and the run stops there: no geo-joined file exists, nothing was merged, and
\* the five aggregate files hold what cell 10 wrote.  The coercion raises in
\* no other case.
C9_CoercionFault ==
    /\ HasNonNumericId =>
           /\ pc <= 13
           /\ NoGeoFile
           /\ merged_by = <<>> /\ geo_by = <<>>
    /\ fault = "ValueError" =>
           /\ HasNonNumericId
           /\ pc = 13
           /\ \A p \in Periods :
                  /\ Exists(TcPath(lower(p)))
                  /\ files[TcPath(lower(p))] = long_df_by[p]
                  /\ files[TcPath(lower(p))] =
                         IF p = "Hour" THEN SelectHour(long_df)
                         ELSE groupby_sum(long_df, p)

C9_Witness ==
    /\ fault = "ValueError"
    /\ pc = 13
    /\ NoGeoFile
    /\ \A p \in Periods : Exists(TcPath(lower(p)))
    /\ Len(files[ShpPath].rows) = 2

\* C10: from the end of the first pass on, each <p>_geo.pkl holds the table
\* the first pass computed, whichever pass wrote it last, and that table is
\* the geo-join of <p>_tc_dataset.pkl; no cell reads a file that is not there.
C10_PassesAgree ==
    /\ fault # "FileNotFoundError"
    /\ pc >= 17 =>
           \A p \in Periods :
               /\ Exists(GeoPath(lower(p))) /\ Exists(TcPath(lower(p)))
               /\ files[GeoPath(lower(p))] = geo_by[p]
               /\ files[GeoPath(lower(p))] =
                      quick_df_cleanup(
                          merge_left(files[TcPath(lower(p))],
                                     WithGeoidInt(files[ShpPath])), p)

C10_Witness ==
    /\ pc = 20 /\ fault = "none"
    /\ loop_i = Len(period_list) + 1
    /\ Len(files[GeoPath("day")].rows) >= 3
    /\ \E k \in 1..Len(files[GeoPath("day")].rows) :
           files[GeoPath("day")].rows[k]["Urban Area"] = NaN
    /\ \E k \in 1..Len(files[GeoPath("day")].rows) :
           files[GeoPath("day")].rows[k]["Urban Area"] = Val("Akron")

----------------------------------------------------------------------------
(* Properties of the column normalizer (SpecRename) *)

MatchesHDigits(s) ==
    /\ Len(s) >= 2
    /\ s[1] = "h"
    /\ \A i \in 2..Len(s) : s[i] \in Digits

\* C4 (as stated): a label h<digits> becomes the integer <digits>, every other
\* label is returned unchanged, and no label makes rename_hvars raise.
C4_AsStated ==
    Len(renamed) >= 1 =>
        /\ renamed[1] # Raised
        /\ IF vname.kind = "str" /\ MatchesHDigits(vname.s)
           THEN renamed[1] = IntLabel(DecimalValue(Tail(vname.s)))
           ELSE renamed[1] = vname

\* C7: rename_hvars applied to its own result returns that result, and an
\* integer label is returned as it is.
C7_Idempotent ==
    /\ (Len(renamed) >= 1 /\ vname.kind = "int") => renamed[1] = vname
    /\ (Len(renamed) >= 1 /\ renamed[1].kind = "int") => Len(renamed) < 2
                                                        \/ renamed[2] = renamed[1]
    /\ Len(renamed) = 2 => renamed[2] = renamed[1]
    /\ \A i \in 1..Len(renamed) : renamed[i] # Raised

C7_Witness ==
    /\ vname = StrLabel(<<"h", "1", "0">>)
    /\ renamed = <<IntLabel(10), IntLabel(10)>>

----------------------------------------------------------------------------
(* Properties of the timestamp deriver and of the Week key (SpecDate) *)

Epoch2015 == Timestamp(2015, 1, 1, 0)

IsValidTimestamp(ts) ==
    /\ ts.month \in 1..12
    /\ ts.day \in 1..DaysInMonth(ts.year, ts.month)
    /\ ts.hour \in 0..23

\* C5: create_date(h) is 2015-01-01T00:00 plus h-1 hours for every h, inside
\* 1..8760 or not; hour 1 is 2015-01-01T00:00, hour 8760 is 2015-12-31T23:00,
\* and every hour of 1..8760 lies in 2015.
C5_CreateDate ==
    Hour # Undefined =>
        /\ IsValidTimestamp(Hour)
        /\ StartHours(Hour) = StartHours(Epoch2015) + (hcol - 1)
        /\ hcol = 1 => Hour = Timestamp(2015, 1, 1, 0)
        /\ hcol = HoursInYear => Hour = Timestamp(2015, 12, 31, 23)
        /\ hcol \in 1..HoursInYear <=> Hour.year = 2015

C5_Witness ==
    /\ hcol = HoursInYear
    /\ Hour = Timestamp(2015, 12, 31, 23)

\* C8: for the hours 1..8760 the Week key is the Monday 00:00 on or before the
\* timestamp, at most 6 days 23 hours before it; the hours of 2015-01-01 to
\* 2015-01-04 have the key 2014-12-29, before the first timestamp.
C8_WeekKey ==
    (Week # Undefined /\ hcol \in 1..HoursInYear) =>
        /\ IsValidTimestamp(Week)
        /\ Week.hour = 0
        /\ StartHours(Hour) - StartHours(Week) \in 0..167
        /\ (StartHours(Week) - StartHours(Timestamp(2014, 12, 29, 0))) % 168 = 0
        /\ Hour.month = 1 /\ Hour.day \in 1..4 => Week = Timestamp(2014, 12, 29, 0)
        /\ hcol = 97 => Week = Timestamp(2015, 1, 5, 0)
        /\ hcol = 1 => StartHours(Week) < StartHours(Hour)

C8_Witness ==
    /\ hcol = 96
    /\ Hour = Timestamp(2015, 1, 4, 23)
    /\ Week = Timestamp(2014, 12, 29, 0)

====
